---- MODULE Spec2Model ----
(***************************************************************************)
(* Model of src/verify_attestation.rs: the SEV-SNP attestation verifier.   *)
(* One behaviour is one call of one of the crate's public functions        *)
(* (verify_attestation_report_cli, verify_attestation_report,              *)
(* verify_attestation_report_raw, request_vcek, get_cert_chain), stepped    *)
(* statement by statement.  A failed unwrap() or panic!() ends the call in  *)
(* outcome "panicked" with the failing step's error as reason; a normal    *)
(* return of the unit value ends it in outcome "returned".                  *)
(*                                                                         *)
(* Cryptography is ideal: a signature records the key that made it and the *)
(* bytes it was made over, and verifies exactly against that key and those *)
(* bytes.                                                                  *)
(***************************************************************************)
EXTENDS Integers, Sequences, FiniteSets, TLC

\* ------------------------------------------------------------------ bounds
\* length of the modelled chip_id (the code's is [u8; 64])
ChipIdLen == 2
\* length of the modelled measurement (the code's is [u8; 48])
MeasLen == 2

\* --------------------------------------------------------------- constants
SEV_PROD_NAME == "Genoa"
KDS_CERT_SITE == "https://kdsintf.amd.com"
KDS_VCEK == "/vcek/v1"
\* u8 arithmetic is modulo 2^8
U8Mod == 256
Byte == 0 .. (U8Mod - 1)

\* Option / Result values: <<>> is None / Err, <<x>> is Some(x) / Ok(x).
None == << >>
Some(x) == << x >>
IsSome(o) == Len(o) = 1
Get(o) == o[1]

\* ------------------------------------------------------------ certificates
\* A certificate: its subject, its public key, and the key that signed it.
Cert(s, k, by) == [subject |-> s, key |-> k, signer |-> by]
ARK == Cert("ARK", "ark-key", "ark-key")
ASK == Cert("ASK", "ask-key", "ark-key")
VCEK == Cert("VCEK", "vcek-key", "ask-key")
\* certificates that are not what the vendor issued
RogueARK == Cert("ARK", "ark-key", "rogue-key")
RogueASK == Cert("ASK", "ask-key", "rogue-key")
RogueVCEK == Cert("VCEK", "vcek-key", "rogue-key")
OtherVCEK == Cert("VCEK", "other-vcek-key", "ask-key")

\* (&signer, &signee).verify() of the sev crate: signee's signature verifies
\* against signer's public key.
Signs(signer, signee) == signee.signer = signer.key

\* DER / PEM encodings and their parsers.
Garbage == [kind |-> "garbage"]
Der(c) == [kind |-> "der", cert |-> c]
Pem(c) == [kind |-> "pem", cert |-> c]
FromDer(bytes) == IF bytes.kind = "der" THEN Some(bytes.cert) ELSE None
FromPem(bytes) == IF bytes.kind = "pem" THEN Some(bytes.cert) ELSE None
ToPem(c) == Pem(c)

\* Contents data/Genoa.pem may have: a PEM stack (a sequence of certificates),
\* or bytes X509::stack_from_pem rejects.
PemStack(cs) == [kind |-> "pemstack", certs |-> cs]
StackFromPem(bytes) == IF bytes.kind = "pemstack" THEN Some(bytes.certs) ELSE None
GenuineBundle == PemStack(<< ASK, ARK >>)
Bundles ==
  { GenuineBundle,
    PemStack(<< RogueASK, ARK >>),
    PemStack(<< ASK, RogueARK >>),
    PemStack(<< RogueASK, RogueARK >>),
    PemStack(<< ARK, ASK >>),
    PemStack(<< ASK >>),
    Garbage }

\* ----------------------------------------------------------------- reports
TcbFields == { "bootloader", "tee", "snp", "microcode" }
Tcb(b, t, s, m) == [bootloader |-> b, tee |-> t, snp |-> s, microcode |-> m]
BaseTcb == Tcb(3, 0, 20, 209)
\* every value of every component, one component at a time
TcbInputs == { [BaseTcb EXCEPT ![f] = v] : f \in TcbFields, v \in Byte }

ChipBytes == { 10, 171 }
ChipIds == [1 .. ChipIdLen -> ChipBytes]
\* bytes after the first of a measurement
MeasTail == [1 .. (MeasLen - 1) -> { 170 }]
Meas(b) == << b >> \o CHOOSE t \in MeasTail : TRUE

\* The signed byte range of a report: every field but the signature.
Body(r) == << r.measurement, r.chip_id, r.reported_tcb >>
Sig(k, over) == [key |-> k, over |-> over]
Report(m, c, t, sig) ==
  [measurement |-> m, chip_id |-> c, reported_tcb |-> t, signature |-> sig]
\* a report the chip issued: signed by the VCEK key over its own fields
Issued(m, c, t) == Report(m, c, t, Sig("vcek-key", << m, c, t >>))
\* a report signed by another key
Forged(m, c, t) == Report(m, c, t, Sig("rogue-key", << m, c, t >>))
\* an issued report whose first measurement byte was lowered by one afterwards
Lowered(m, c, t) ==
  Report([m EXCEPT ![1] = (m[1] + U8Mod - 1) % U8Mod], c, t,
         Sig("vcek-key", << m, c, t >>))
ValidReport(r) == r.signature = Sig("vcek-key", Body(r))

ReportsOver(bs) ==
  UNION { { Issued(Meas(b), c, BaseTcb), Forged(Meas(b), c, BaseTcb),
            Lowered(Meas(b), c, BaseTcb) } :
          b \in bs, c \in { CHOOSE c \in ChipIds : TRUE } }
\* reports passed in parsed (verify_attestation_report_raw)
RawReports == ReportsOver(Byte)
\* reports that arrive as JSON text
FileReports ==
  UNION { { Issued(Meas(b), c, BaseTcb), Forged(Meas(b), c, BaseTcb) } :
          b \in { 0, 255 }, c \in ChipIds }
Json(r) == [kind |-> "json", report |-> r]
\* serde_json::from_str::<AttestationReport>
FromStr(s) == IF s.kind = "json" THEN Some(s.report) ELSE None
JsonInputs == { Garbage } \cup { Json(r) : r \in FileReports }
VcekInputs == { Garbage, Der(VCEK), Der(RogueVCEK), Der(OtherVCEK) }

Products == { SEV_PROD_NAME, "Milan" }

\* ----------------------------------------------------- the leaf fetch's URL
\* decimal digits of n, most significant first
RECURSIVE Digits(_)
Digits(n) == IF n < 10 THEN << n >> ELSE Digits(n \div 10) \o << n % 10 >>
\* left-pad a digit string with zeros to a minimum width
RECURSIVE ZeroPad(_, _)
ZeroPad(ds, w) == IF Len(ds) >= w THEN ds ELSE ZeroPad(<< 0 >> \o ds, w)
\* {} in place of {:02}: no padding
Fmt02NoPad(n) == Digits(n)
\* the format specifier {:02}: minimum width 2, padded with zeros
Fmt02(n) == ZeroPad(Digits(n), 2)
\* hex::encode: two nibbles per byte, high nibble first
HexEncode(bytes) ==
  [i \in 1 .. (2 * Len(bytes)) |->
     IF i % 2 = 1 THEN bytes[(i + 1) \div 2] \div 16 ELSE bytes[i \div 2] % 16]
Param(name, value) == [name |-> name, value |-> value]
\* the query string of the format! in request_vcek, in the order it is written
VcekQuery(tcb) ==
  << Param("blSPL", Fmt02(tcb.bootloader)),
     Param("teeSPL", Fmt02(tcb.tee)),
     Param("snpSPL", Fmt02(tcb.snp)),
     Param("ucodeSPL", Fmt02(tcb.microcode)) >>
VcekUrl(chip, tcb, prod) ==
  [site |-> KDS_CERT_SITE, endpoint |-> KDS_VCEK, product |-> prod,
   hw_id |-> HexEncode(chip), query |-> VcekQuery(tcb)]

\* What the key-distribution service (or the network) may answer to a GET:
\* a transport error, or a response with a status whose body may fail to
\* arrive.
TransportError == [kind |-> "transport_error"]
Response(status, body, readable) ==
  [kind |-> "response", status |-> status, body |-> body, readable |-> readable]
NetOutcomes ==
  { TransportError } \cup
  { Response(st, b, rd) :
      st \in { 200, 404 }, b \in { Garbage, Der(VCEK), Der(RogueVCEK) },
      rd \in BOOLEAN }
\* reqwest::blocking::get(&url).unwrap().bytes().unwrap().to_vec()
GetBytes(net) ==
  IF net.kind = "response" /\ net.readable THEN Some(net.body) ELSE None

\* --------------------------------------------------------- get_cert_chain
\* (ark, ask) = (chain[0], chain[1]): the two roles swapped
CaChainSwapped(chain) ==
  [ark |-> Get(FromPem(ToPem(chain[1]))), ask |-> Get(FromPem(ToPem(chain[2])))]
\* (ark, ask) = (chain[1], chain[0]) re-encoded as PEM and handed to
\* ca::Chain::from_pem(ark, ask); indices are 1-based here.
CaChainFromStack(chain) ==
  [ark |-> Get(FromPem(ToPem(chain[2]))), ask |-> Get(FromPem(ToPem(chain[1])))]
Ok(v) == [ok |-> TRUE, val |-> v]
Err(e) == [ok |-> FALSE, err |-> e]
\* the product check inverted (== for !=)
GetCertChainInverted(prod, pem) ==
  IF prod = SEV_PROD_NAME THEN Err("UnsupportedProduct")
  ELSE IF ~IsSome(StackFromPem(pem)) THEN Err("BundleMalformed")
  ELSE IF Len(Get(StackFromPem(pem))) < 2 THEN Err("BundleMalformed")
  ELSE Ok(CaChainFromStack(Get(StackFromPem(pem))))
GetCertChainResult(prod, pem) ==
  IF prod # SEV_PROD_NAME THEN Err("UnsupportedProduct")
  ELSE IF ~IsSome(StackFromPem(pem)) THEN Err("BundleMalformed")
  ELSE IF Len(Get(StackFromPem(pem))) < 2 THEN Err("BundleMalformed")
  ELSE Ok(CaChainFromStack(Get(StackFromPem(pem))))

\* ------------------------------------------- (&Chain, &report).verify()
\* The ARK signs itself and the ASK.
CaVerify(ca) ==
  IF ~Signs(ca.ark, ca.ark) THEN "RootSelfSignFailed"
  ELSE IF ~Signs(ca.ark, ca.ask) THEN "IntermediateSignatureInvalid"
  ELSE "Ok"
\* The full chain VCEK -> ASK -> ARK.
ChainVerify(fc) ==
  IF CaVerify(fc.ca) # "Ok" THEN CaVerify(fc.ca)
  ELSE IF ~Signs(fc.ca.ask, fc.vcek) THEN "LeafSignatureInvalid"
  ELSE "Ok"
\* The report is signed by the VCEK over its signed byte range.
ReportVerify(leaf, r) ==
  IF r.signature.key = leaf.key /\ r.signature.over = Body(r) THEN "Ok"
  ELSE "SignatureInvalid"
\* the report checked before the chain
VerifyReportFirst(fc, r) ==
  IF ReportVerify(fc.vcek, r) # "Ok" THEN ReportVerify(fc.vcek, r)
  ELSE ChainVerify(fc)
\* The chain first, and then the report against the chain's VCEK.
verify(fc, r) ==
  IF ChainVerify(fc) # "Ok" THEN ChainVerify(fc) ELSE ReportVerify(fc.vcek, r)
\* the verification result dropped instead of unwrapped
UnwrapIgnoring(res) == "returned"
\* Result::unwrap of the verification result
Unwrap(res) == IF res = "Ok" THEN "returned" ELSE "panicked"

\* saturating_add(1) in place of wrapping_add(1)
PerturbSaturating(r) ==
  [r EXCEPT !.measurement =
     [@ EXCEPT ![1] = IF @ + 1 >= U8Mod THEN U8Mod - 1 ELSE @ + 1]]
\* report.measurement[0] = report.measurement[0].wrapping_add(1)
Perturb(r) ==
  [r EXCEPT !.measurement = [@ EXCEPT ![1] = (@ + 1) % U8Mod]]

\* ------------------------------------------------------------------ state
VARIABLES
  entry,            \* the public function this call entered through
  pc,               \* the statement the call is at
  outcome,          \* "running", "returned" or "panicked"
  reason,           \* the error a panic carries, "" otherwise
  steps,            \* the steps executed so far, in order
  report_file,      \* contents of the file at report_path, None if unreadable
  vcek_path,        \* the optional VCEK path argument
  vcek_file,        \* contents of the file at vcek_path, None if unreadable
  fail_on_purpose,  \* the tamper flag
  GENOA_PEM,        \* contents of data/Genoa.pem compiled into the crate
  report_json,      \* the report text, once read or passed in
  vcek_bytes,       \* the VCEK bytes, once read, fetched or passed in
  arg_report,       \* the report as handed to verify_attestation_report_raw
  report,           \* the report verify_attestation_report_raw holds
  vcek,             \* the parsed VCEK
  sev_prod_name,    \* product name argument of request_vcek / get_cert_chain
  chip_id,          \* chip_id argument of request_vcek
  reported_tcb,     \* reported_tcb argument of request_vcek
  cert_chain,       \* the ca::Chain get_cert_chain returned
  http,             \* the GET requests issued, in order
  rsp               \* what the network answered to the last GET

inputs == << entry, report_file, vcek_path, vcek_file, fail_on_purpose, GENOA_PEM >>
vars ==
  << entry, pc, outcome, reason, steps, report_file, vcek_path, vcek_file,
     fail_on_purpose, GENOA_PEM, report_json, vcek_bytes, arg_report, report,
     vcek, sev_prod_name, chip_id, reported_tcb, cert_chain, http, rsp >>

\* The locals every call starts with.
Fresh ==
  /\ outcome = "running"
  /\ reason = ""
  /\ steps = << >>
  /\ cert_chain = None
  /\ http = << >>
  /\ rsp = None

\* verify_attestation_report_cli(report_path, vcek_path, fail_on_purpose)
InitCli ==
  /\ GENOA_PEM \in Bundles
  /\ entry = "verify_attestation_report_cli"
  /\ pc = "cli_read_report"
  /\ report_file \in { None } \cup { Some(j) : j \in JsonInputs }
  /\ vcek_path \in { None, Some("vcek.crt") }
  /\ vcek_file \in { None } \cup { Some(b) : b \in VcekInputs }
  /\ (vcek_path = None => vcek_file = None)
  /\ fail_on_purpose \in BOOLEAN
  /\ report_json = None /\ vcek_bytes = None /\ arg_report = None
  /\ report = None /\ vcek = None
  /\ sev_prod_name = None /\ chip_id = None /\ reported_tcb = None

\* verify_attestation_report(report_json, vcek_bytes, fail_on_purpose)
InitVerify ==
  /\ GENOA_PEM \in Bundles
  /\ entry = "verify_attestation_report"
  /\ pc = "parse_report"
  /\ report_file = None /\ vcek_path = None /\ vcek_file = None
  /\ fail_on_purpose \in BOOLEAN
  /\ report_json \in { Some(j) : j \in JsonInputs }
  /\ vcek_bytes \in { Some(b) : b \in VcekInputs }
  /\ arg_report = None /\ report = None /\ vcek = None
  /\ sev_prod_name = None /\ chip_id = None /\ reported_tcb = None

\* verify_attestation_report_raw(report, vcek, fail_on_purpose)
InitRaw ==
  /\ GENOA_PEM \in Bundles
  /\ entry = "verify_attestation_report_raw"
  /\ pc = "tamper"
  /\ report_file = None /\ vcek_path = None /\ vcek_file = None
  /\ fail_on_purpose \in BOOLEAN
  /\ report_json = None /\ vcek_bytes = None
  /\ arg_report \in { Some(r) : r \in RawReports }
  /\ report = arg_report
  /\ vcek \in { Some(VCEK), Some(RogueVCEK), Some(OtherVCEK) }
  /\ sev_prod_name = None /\ chip_id = None /\ reported_tcb = None

\* request_vcek(chip_id, reported_tcb, sev_prod_name)
InitRequestVcek ==
  /\ GENOA_PEM = GenuineBundle
  /\ entry = "request_vcek"
  /\ pc = "request_vcek"
  /\ report_file = None /\ vcek_path = None /\ vcek_file = None
  /\ fail_on_purpose = FALSE
  /\ report_json = None /\ vcek_bytes = None /\ arg_report = None
  /\ report = None /\ vcek = None
  /\ sev_prod_name \in { Some(p) : p \in Products }
  /\ chip_id \in { Some(c) : c \in ChipIds }
  /\ reported_tcb \in { Some(t) : t \in TcbInputs }

\* get_cert_chain(sev_prod_name)
InitGetCertChain ==
  /\ GENOA_PEM \in Bundles
  /\ entry = "get_cert_chain"
  /\ pc = "get_cert_chain"
  /\ report_file = None /\ vcek_path = None /\ vcek_file = None
  /\ fail_on_purpose = FALSE
  /\ report_json = None /\ vcek_bytes = None /\ arg_report = None
  /\ report = None /\ vcek = None
  /\ sev_prod_name \in { Some(p) : p \in Products }
  /\ chip_id = None /\ reported_tcb = None

Init ==
  /\ Fresh
  /\ \/ InitCli
     \/ InitVerify
     \/ InitRaw
     \/ InitRequestVcek
     \/ InitGetCertChain

\* ---------------------------------------------------------------- actions
\* a failed unwrap() or a panic!(): the call ends with the step's error
Panic(e) == outcome' = "panicked" /\ reason' = e /\ pc' = "done"
Return == outcome' = "returned" /\ reason' = "" /\ pc' = "done"
Goto(l) == pc' = l /\ UNCHANGED << outcome, reason >>
Did(step) == steps' = Append(steps, step)

\* std::fs::read_to_string(report_path).unwrap()
CliReadReport ==
  /\ pc = "cli_read_report"
  /\ Did("read_report")
  /\ IF IsSome(report_file)
       THEN report_json' = report_file /\ Goto("cli_vcek")
       ELSE Panic("Io") /\ UNCHANGED report_json
  /\ UNCHANGED << inputs, vcek_bytes, arg_report, report, vcek, sev_prod_name,
                  chip_id, reported_tcb, cert_chain, http, rsp >>

\* if let Some(vcek_path) = vcek_path { std::fs::read(vcek_path).unwrap() }
CliReadVcek ==
  /\ pc = "cli_vcek"
  /\ IsSome(vcek_path)
  /\ Did("read_vcek")
  /\ IF IsSome(vcek_file)
       THEN vcek_bytes' = vcek_file /\ Goto("parse_report")
       ELSE Panic("Io") /\ UNCHANGED vcek_bytes
  /\ UNCHANGED << inputs, report_json, arg_report, report, vcek, sev_prod_name,
                  chip_id, reported_tcb, cert_chain, http, rsp >>

\* else { let report = serde_json::from_str(&report_json_str).unwrap();
\*        request_vcek(report.chip_id, report.reported_tcb, SEV_PROD_NAME) }
CliParseForFetch ==
  /\ pc = "cli_vcek"
  /\ ~IsSome(vcek_path)
  /\ Did("parse_report")
  /\ IF IsSome(FromStr(Get(report_json)))
       THEN /\ chip_id' = Some(Get(FromStr(Get(report_json))).chip_id)
            /\ reported_tcb' = Some(Get(FromStr(Get(report_json))).reported_tcb)
            /\ sev_prod_name' = Some(SEV_PROD_NAME)
            /\ Goto("request_vcek")
       ELSE /\ Panic("ReportParse")
            /\ UNCHANGED << chip_id, reported_tcb, sev_prod_name >>
  /\ UNCHANGED << inputs, report_json, vcek_bytes, arg_report, report, vcek,
                  cert_chain, http, rsp >>

\* a failed GET tried again instead of unwrapped
RetryFetch == Goto("request_vcek")
\* .unwrap() of a failed GET or of a body that failed to arrive
FetchFailed == Panic("Transport")

\* request_vcek: format the URL, GET it, unwrap the response and its bytes.
request_vcek ==
  /\ pc = "request_vcek"
  /\ \E net \in NetOutcomes :
       /\ http' = Append(http, VcekUrl(Get(chip_id), Get(reported_tcb),
                                      Get(sev_prod_name)))
       /\ rsp' = Some(net)
       /\ Did("fetch")
       /\ IF IsSome(GetBytes(net))
            THEN /\ vcek_bytes' = GetBytes(net)
                 /\ IF entry = "request_vcek" THEN Return ELSE Goto("parse_report")
            ELSE FetchFailed /\ UNCHANGED vcek_bytes
  /\ UNCHANGED << inputs, report_json, arg_report, report, vcek, sev_prod_name,
                  chip_id, reported_tcb, cert_chain >>

\* verify_attestation_report: serde_json::from_str(report_json).unwrap()
ParseReport ==
  /\ pc = "parse_report"
  /\ Did("parse_report")
  /\ IF IsSome(FromStr(Get(report_json)))
       THEN /\ arg_report' = FromStr(Get(report_json))
            /\ report' = FromStr(Get(report_json))
            /\ Goto("parse_vcek")
       ELSE Panic("ReportParse") /\ UNCHANGED << arg_report, report >>
  /\ UNCHANGED << inputs, report_json, vcek_bytes, vcek, sev_prod_name, chip_id,
                  reported_tcb, cert_chain, http, rsp >>

\* verify_attestation_report: Certificate::from_der(vcek_bytes).unwrap().into()
ParseVcek ==
  /\ pc = "parse_vcek"
  /\ Did("parse_vcek")
  /\ IF IsSome(FromDer(Get(vcek_bytes)))
       THEN vcek' = FromDer(Get(vcek_bytes)) /\ Goto("tamper")
       ELSE Panic("CertParse") /\ UNCHANGED vcek
  /\ UNCHANGED << inputs, report_json, vcek_bytes, arg_report, report,
                  sev_prod_name, chip_id, reported_tcb, cert_chain, http, rsp >>

\* verify_attestation_report_raw: if fail_on_purpose { measurement[0] += 1 },
\* then the call get_cert_chain(SEV_PROD_NAME) is made.
Tamper ==
  /\ pc = "tamper"
  /\ IF fail_on_purpose
       THEN report' = Some(Perturb(Get(report))) /\ Did("perturb")
       ELSE UNCHANGED << report, steps >>
  /\ sev_prod_name' = Some(SEV_PROD_NAME)
  /\ Goto("get_cert_chain")
  /\ UNCHANGED << inputs, report_json, vcek_bytes, arg_report, vcek, chip_id,
                  reported_tcb, cert_chain, http, rsp >>

\* get_cert_chain: the product check, the PEM stack, the (ark, ask) pair.
get_cert_chain ==
  /\ pc = "get_cert_chain"
  /\ Did("load_root")
  /\ IF GetCertChainResult(Get(sev_prod_name), GENOA_PEM).ok
       THEN /\ cert_chain' = Some(GetCertChainResult(Get(sev_prod_name), GENOA_PEM).val)
            /\ IF entry = "get_cert_chain" THEN Return ELSE Goto("verify")
       ELSE /\ Panic(GetCertChainResult(Get(sev_prod_name), GENOA_PEM).err)
            /\ UNCHANGED cert_chain
  /\ UNCHANGED << inputs, report_json, vcek_bytes, arg_report, report, vcek,
                  sev_prod_name, chip_id, reported_tcb, http, rsp >>

\* the Chain { ca, vcek } the call verifies
FullChain == [ca |-> Get(cert_chain), vcek |-> Get(vcek)]

\* (&full_cert_chain, &report).verify() and the unwrap() of its result
RawVerify ==
  /\ pc = "verify"
  /\ steps' = IF ChainVerify(FullChain) = "Ok"
                THEN steps \o << "validate_chain", "authenticate" >>
                ELSE Append(steps, "validate_chain")
  /\ IF Unwrap(verify(FullChain, Get(report))) = "returned"
       THEN Return
       ELSE Panic(verify(FullChain, Get(report)))
  /\ UNCHANGED << inputs, report_json, vcek_bytes, arg_report, report, vcek,
                  sev_prod_name, chip_id, reported_tcb, cert_chain, http, rsp >>

Next ==
  \/ CliReadReport
  \/ CliReadVcek
  \/ CliParseForFetch
  \/ request_vcek
  \/ ParseReport
  \/ ParseVcek
  \/ Tamper
  \/ get_cert_chain
  \/ RawVerify

Spec == Init /\ [][Next]_vars

\* ============================================================== properties
VerifyEntries ==
  { "verify_attestation_report_cli", "verify_attestation_report",
    "verify_attestation_report_raw" }
Done == pc = "done"
Verified == outcome = "returned"
Rejected(e) == outcome = "panicked" /\ reason = e

\* the error kind a reason belongs to
Kind(e) ==
  CASE e \in { "ReportParse", "CertParse", "BundleMalformed" } -> "ParseError"
    [] e \in { "RootSelfSignFailed", "IntermediateSignatureInvalid",
               "LeafSignatureInvalid" } -> "ChainError"
    [] e = "SignatureInvalid" -> "AuthError"
    [] e = "Transport" -> "FetchError"
    [] e = "UnsupportedProduct" -> "UnsupportedProduct"
    [] OTHER -> "Other"
Taxonomy ==
  { "ParseError", "ChainError", "AuthError", "FetchError", "UnsupportedProduct" }

\* The call's inputs, read off the state: the report and the leaf certificate
\* it was given (or fetched), None where it has none.
ReportInput ==
  CASE entry = "verify_attestation_report_raw" -> arg_report
    [] entry = "verify_attestation_report" -> FromStr(Get(report_json))
    [] entry = "verify_attestation_report_cli" ->
         IF IsSome(report_file) THEN FromStr(Get(report_file)) ELSE None
    [] OTHER -> None
LeafBytes ==
  CASE entry = "verify_attestation_report" -> vcek_bytes
    [] entry = "verify_attestation_report_cli" ->
         IF IsSome(vcek_path) THEN vcek_file
         ELSE IF IsSome(rsp) /\ Get(rsp).kind = "response" /\ Get(rsp).readable
           THEN Some(Get(rsp).body)
         ELSE None
    [] OTHER -> None
LeafInput ==
  IF entry = "verify_attestation_report_raw" THEN vcek
  ELSE IF IsSome(LeafBytes) THEN FromDer(Get(LeafBytes))
  ELSE None

\* The bundle holds [intermediate, root]; the chain root -> intermediate -> leaf
\* holds when the root signs itself and the intermediate, and the intermediate
\* signs the leaf.
BundleWellFormed == GENOA_PEM.kind = "pemstack" /\ Len(GENOA_PEM.certs) >= 2
Root == GENOA_PEM.certs[2]
Intermediate == GENOA_PEM.certs[1]
ChainResolves(leaf) ==
  /\ BundleWellFormed
  /\ Root.signer = Root.key
  /\ Intermediate.signer = Root.key
  /\ leaf.signer = Intermediate.key
SignedBy(r, leaf) ==
  /\ r.signature.key = leaf.key
  /\ r.signature.over = << r.measurement, r.chip_id, r.reported_tcb >>
\* a validly issued report and its leaf, under a bundle that resolves
ValidPair ==
  /\ entry \in VerifyEntries
  /\ IsSome(ReportInput)
  /\ IsSome(LeafInput)
  /\ ChainResolves(Get(LeafInput))
  /\ SignedBy(Get(ReportInput), Get(LeafInput))

\* C1 (fail-closed): a verification call returns (Verified) only if every step
\* succeeded: the report and the leaf parsed, the bundle loaded, the chain
\* root -> intermediate -> leaf validated, and the report as verified is
\* signed by that leaf.  If any step failed the outcome is not Verified.
C1_FailClosed ==
  (entry \in VerifyEntries /\ Verified) =>
    /\ IsSome(ReportInput) /\ IsSome(LeafInput)
    /\ IsSome(report) /\ IsSome(vcek) /\ vcek = LeafInput
    /\ ChainResolves(Get(vcek))
    /\ SignedBy(Get(report), Get(vcek))
    /\ steps[Len(steps)] = "authenticate"
    /\ steps[Len(steps) - 1] = "validate_chain"
C1_Witness ==
  /\ entry = "verify_attestation_report_cli"
  /\ Verified
  /\ Len(http) = 1

\* C2 (completeness): with the tamper flag off, a call given a validly issued
\* report and a leaf whose chain resolves to the bundle's root ends Verified.
C2_Completeness ==
  (Done /\ ~fail_on_purpose /\ ValidPair) => Verified
C2_Witness ==
  /\ entry = "verify_attestation_report"
  /\ Done /\ ~fail_on_purpose /\ ValidPair /\ Verified

\* C3 (tamper detection): with the tamper flag set, the first measurement byte
\* of a valid report is incremented by one modulo 256, so the report verified
\* differs from the one given for every byte value, and the call ends
\* Rejected(SignatureInvalid), never Verified.
C3_TamperDetected ==
  (fail_on_purpose /\ ValidPair) =>
    /\ ("perturb" \in { steps[i] : i \in DOMAIN steps } =>
          /\ Get(report).measurement[1]
               = (Get(ReportInput).measurement[1] + 1) % 256
          /\ Get(report).measurement[1] # Get(ReportInput).measurement[1]
          /\ Get(report) # Get(ReportInput)
          /\ \A i \in 2 .. MeasLen :
               Get(report).measurement[i] = Get(ReportInput).measurement[i]
          /\ Get(report).chip_id = Get(ReportInput).chip_id
          /\ Get(report).reported_tcb = Get(ReportInput).reported_tcb
          /\ Get(report).signature = Get(ReportInput).signature)
    /\ (Done => Rejected("SignatureInvalid"))
C3_Witness ==
  /\ fail_on_purpose /\ ValidPair /\ Done
  /\ Get(ReportInput).measurement[1] = 255
  /\ Get(report).measurement[1] = 0
  /\ Rejected("SignatureInvalid")

\* C4 (unsupported product): when the product name is not the supported one,
\* the call fails with UnsupportedProduct and no HTTP request is ever issued,
\* in request_vcek as well as in get_cert_chain.
C4_NoRequestForUnsupportedProduct ==
  (IsSome(sev_prod_name) /\ Get(sev_prod_name) # SEV_PROD_NAME) =>
    /\ http = << >>
    /\ (Done => Rejected("UnsupportedProduct"))

\* a success status of an HTTP response
IsSuccess(status) == status \in 200 .. 299
FetchFailure ==
  /\ IsSome(rsp)
  /\ \/ Get(rsp).kind = "transport_error"
     \/ ~Get(rsp).readable
     \/ ~IsSuccess(Get(rsp).status)
     \/ Get(sev_prod_name) # SEV_PROD_NAME
\* C5 (fetch failures): a failed leaf fetch (transport error, body that does
\* not arrive, non-success response, unsupported product) ends the call with a
\* FetchError, the body of a non-success response is never used as the leaf,
\* and no other failure ends as a FetchError.
C5_FetchFailureIsFetchError ==
  /\ (FetchFailure => vcek_bytes = None)
  /\ (Done /\ FetchFailure => outcome = "panicked" /\ Kind(reason) = "FetchError")
  /\ (outcome = "panicked" /\ Kind(reason) = "FetchError" => FetchFailure)

\* the steps run so far
StepsDone == { steps[i] : i \in DOMAIN steps }

ClaimedRank(step) ==
  CASE step = "read_report" -> 0
    [] step = "parse_report" -> 1
    [] step = "perturb" -> 2
    [] step \in { "read_vcek", "fetch", "parse_vcek" } -> 3
    [] step = "load_root" -> 4
    [] step = "validate_chain" -> 5
    [] step = "authenticate" -> 6
\* the steps of a call that passes every check, in the order of the code
RawTrace ==
  (IF fail_on_purpose THEN << "perturb" >> ELSE << >>)
    \o << "load_root", "validate_chain", "authenticate" >>
CodeTrace ==
  CASE entry = "verify_attestation_report_raw" -> RawTrace
    [] entry = "verify_attestation_report" ->
         << "parse_report", "parse_vcek" >> \o RawTrace
    [] entry = "verify_attestation_report_cli" ->
         << "read_report" >>
           \o (IF IsSome(vcek_path) THEN << "read_vcek" >>
               ELSE << "parse_report", "fetch" >>)
           \o << "parse_report", "parse_vcek" >> \o RawTrace
    [] OTHER -> << >>
IsPrefix(s, t) == Len(s) <= Len(t) /\ \A i \in DOMAIN s : s[i] = t[i]
\* the step whose failure a reason reports
StepOf(e) ==
  CASE e = "Io" -> { "read_report", "read_vcek" }
    [] e = "ReportParse" -> { "parse_report" }
    [] e = "CertParse" -> { "parse_vcek" }
    [] e = "Transport" -> { "fetch" }
    [] e \in { "UnsupportedProduct", "BundleMalformed" } -> { "load_root" }
    [] Kind(e) = "ChainError" -> { "validate_chain" }
    [] e = "SignatureInvalid" -> { "authenticate" }
    [] OTHER -> { }

RECURSIVE DecValue(_)
DecValue(ds) ==
  IF ds = << >> THEN 0
  ELSE 10 * DecValue(SubSeq(ds, 1, Len(ds) - 1)) + ds[Len(ds)]
QueryNames == << "blSPL", "teeSPL", "snpSPL", "ucodeSPL" >>
QueryValues(tcb) == << tcb.bootloader, tcb.tee, tcb.snp, tcb.microcode >>

\* C8 as stated: each of blSPL, teeSPL, snpSPL, ucodeSPL is rendered as exactly
\* two decimal digits.
C8_ExactlyTwoDigits ==
  \A i \in DOMAIN http : \A k \in DOMAIN http[i].query :
    Len(http[i].query[k].value) = 2
\* C8 as amended: the four parameters come in the order blSPL, teeSPL, snpSPL,
\* ucodeSPL with the values bootloader, tee, snp, microcode, each rendered in
\* decimal and padded with zeros to at least two digits: two digits for 0..99,
\* three for 100..255.
C8_AtLeastTwoDigits ==
  \A i \in DOMAIN http :
    /\ Len(http[i].query) = 4
    /\ \A k \in 1 .. 4 :
         /\ http[i].query[k].name = QueryNames[k]
         /\ \A d \in DOMAIN http[i].query[k].value :
              http[i].query[k].value[d] \in 0 .. 9
         /\ DecValue(http[i].query[k].value) = QueryValues(Get(reported_tcb))[k]
         /\ Len(http[i].query[k].value)
              = IF QueryValues(Get(reported_tcb))[k] < 100 THEN 2 ELSE 3
C8_Witness ==
  /\ Len(http) = 1
  /\ Get(reported_tcb) = Tcb(3, 7, 20, 209)
  /\ http[1].query[1].value = << 0, 3 >>
  /\ http[1].query[2].value = << 0, 7 >>
  /\ http[1].query[4].value = << 2, 0, 9 >>

\* C9 (bundle roles): the chain get_cert_chain builds has the bundle's second
\* certificate as its root (ARK) and the first as its intermediate (ASK), and
\* is built for the supported product only.
C9_RootIsSecond ==
  /\ (IsSome(cert_chain) =>
        /\ BundleWellFormed
        /\ Get(cert_chain).ark = GENOA_PEM.certs[2]
        /\ Get(cert_chain).ask = GENOA_PEM.certs[1]
        /\ Get(sev_prod_name) = SEV_PROD_NAME)
  /\ (entry = "get_cert_chain" /\ Done /\ Get(sev_prod_name) # SEV_PROD_NAME
        => cert_chain = None /\ Rejected("UnsupportedProduct"))
C9_Witness ==
  /\ entry = "get_cert_chain"
  /\ Verified
  /\ GENOA_PEM = PemStack(<< ASK, ARK >>)
  /\ cert_chain = Some([ark |-> ARK, ask |-> ASK])

\* C10 (no retry): a call issues at most one leaf fetch; none when a leaf path
\* is supplied; exactly one when it is absent and the report was read and
\* parsed, for the URL of the report's own chip_id and reported_tcb; and a
\* fetch that fails ends the call there, without a second attempt.
C10_AtMostOneFetch ==
  /\ Len(http) <= 1
  /\ Cardinality({ i \in DOMAIN steps : steps[i] = "fetch" }) = Len(http)
  /\ (entry = "verify_attestation_report_cli" =>
        /\ (IsSome(vcek_path) => http = << >>)
        /\ (~IsSome(vcek_path) /\ IsSome(ReportInput)
              /\ pc \notin { "cli_read_report", "cli_vcek", "request_vcek" }
              => Len(http) = 1)
        /\ (http # << >> =>
              /\ IsSome(ReportInput)
              /\ http[1].product = SEV_PROD_NAME
              /\ http[1].hw_id = HexEncode(Get(ReportInput).chip_id)
              /\ \A k \in 1 .. 4 :
                   DecValue(http[1].query[k].value)
                     = QueryValues(Get(ReportInput).reported_tcb)[k]))
  /\ (IsSome(rsp) /\ (Get(rsp).kind = "transport_error" \/ ~Get(rsp).readable)
        => Done /\ Rejected("Transport") /\ steps[Len(steps)] = "fetch")
C10_Witness ==
  /\ entry = "verify_attestation_report_cli"
  /\ Len(http) = 1
  /\ Get(rsp) = TransportError
  /\ Rejected("Transport")

====
